---- MODULE Spec2Model ----
(***************************************************************************)
(* A model of toy-paxos-classic: the Alpha register (acceptor handlers     *)
(* read/write, proposer stages read_stage/write_stage, the alpha drive)    *)
(* of src/src/alpha.rs and the Proposer retry loop of src/src/proposer.rs. *)
(***************************************************************************)
EXTENDS Integers, Sequences, FiniteSets, TLC

(* ------------------------------ bounds -------------------------------- *)
\* number of processes; every process owns one Alpha register and is a peer
NumProcs == 3
\* the values a caller may hand to propose are 1..NumValues
NumValues == 2
\* Spec, proposers in contention: processes 1..NumProposers run propose, each
\* called at most MaxCalls times; an alpha attempt is started only while
\* round.tick <= MaxTick; at most MaxErrs stream items are Err(_) in one run
NumProposers == 2
MaxCalls == 1
MaxTick == 0
MaxErrs == 1
\* SpecSolo, one proposer retrying on its own: the same limits for it
SoloCalls == 2
SoloTick == 2
SoloErrs == 4
\* SpecLive, a failure detector that settles: the limits of Spec, but propose
\* is handed values 1..LiveValues, the settled leader may go LiveExtra ticks
\* further, and no stream item is Err(_)
LiveValues == 1
LiveExtra == 1
\* SpecReg, one register driven call by call: rounds up to RegTick are presented
RegTick == 1

Procs == 1..NumProcs
Proposers == 1..NumProposers
Values == 1..NumValues

(* ------------------------------ Round --------------------------------- *)
\* Round::new(process_id): tick is Tick::default() = 0
RoundNew(process_id) == [tick |-> 0, process_id |-> process_id]

\* next that forgets to advance the tick
RoundNextSame(self) == [tick |-> self.tick, process_id |-> self.process_id]

\* Round::next(self): tick + 1, same process_id
RoundNext(self) == [tick |-> self.tick + 1, process_id |-> self.process_id]

\* derived Ord on Round: tick first, then process_id
RoundLT(a, b) ==
    \/ a.tick < b.tick
    \/ a.tick = b.tick /\ a.process_id < b.process_id

RoundLE(a, b) == a = b \/ RoundLT(a, b)

\* std::cmp::max on Round (returns the second argument when they are equal)
RoundMax(a, b) == IF RoundLT(b, a) THEN a ELSE b

\* the round a fresh register starts from (Id 0 is no process)
ZeroRound == RoundNew(0)

\* the rounds a caller of the register can present
Rounds == [tick : 0..RegTick, process_id : Proposers]

(* --------------------------- Option, Value ---------------------------- *)
\* Option<T> is a sequence of length at most one
None == << >>
Some(x) == << x >>
IsSome(o) == o # << >>
Unwrap(o) == o[1]

\* struct Value<V>
MkValue(value, round) == [value |-> value, last_round_with_write |-> round]

\* struct Alpha<V>
MkAlpha(lre, value) == [last_round_entered |-> lre, value |-> value]

InitAlpha == MkAlpha(ZeroRound, None)

(* ----------------------- acceptor role: read -------------------------- *)
\* read without the max: the promise is overwritten by the requested round
ReadOverwrites(self, round) ==
    LET new == MkAlpha(round, self.value)
    IN  [self |-> new, resp |-> [round |-> round, state |-> new]]

\* read that takes the stored value out of the register
ReadTakes(self, round) ==
    LET new == MkAlpha(RoundMax(self.last_round_entered, round), None)
    IN  [self |-> new,
         resp |-> [round |-> round,
                   state |-> MkAlpha(new.last_round_entered, self.value)]]

\* Alpha::read(&mut self, round): the new self and the ReadResponse
read(self, round) ==
    LET new == MkAlpha(RoundMax(self.last_round_entered, round), self.value)
    IN  [self |-> new, resp |-> [round |-> round, state |-> new]]

(* ----------------------- acceptor role: write ------------------------- *)
\* write without the test against last_round_entered
WriteIgnoresPromise(self, value) ==
    LET round == value.last_round_with_write
        new == IF IsSome(self.value)
                    => RoundLT(Unwrap(self.value).last_round_with_write, round)
               THEN MkAlpha(round, Some(value))
               ELSE self
    IN  [self |-> new,
         resp |-> [round |-> round, last_round_entered |-> new.last_round_entered]]

\* write that stores the value and forgets to move last_round_entered
WriteKeepsRound(self, value) ==
    LET round == value.last_round_with_write
        new == IF /\ RoundLE(self.last_round_entered, round)
                  /\ (IsSome(self.value)
                        => RoundLT(Unwrap(self.value).last_round_with_write, round))
               THEN MkAlpha(self.last_round_entered, Some(value))
               ELSE self
    IN  [self |-> new,
         resp |-> [round |-> round, last_round_entered |-> new.last_round_entered]]

\* write that answers with the round of the request as last_round_entered
WriteAnswersRound(self, value) ==
    LET round == value.last_round_with_write
        new == IF /\ RoundLE(self.last_round_entered, round)
                  /\ (IsSome(self.value)
                        => RoundLT(Unwrap(self.value).last_round_with_write, round))
               THEN MkAlpha(round, Some(value))
               ELSE self
    IN  [self |-> new, resp |-> [round |-> round, last_round_entered |-> round]]

\* Alpha::write(&mut self, value): the new self and the WriteResponse
write(self, value) ==
    LET round == value.last_round_with_write
        new == IF /\ RoundLE(self.last_round_entered, round)
                  /\ (IsSome(self.value)
                        => RoundLT(Unwrap(self.value).last_round_with_write, round))
               THEN MkAlpha(round, Some(value))
               ELSE self
    IN  [self |-> new,
         resp |-> [round |-> round, last_round_entered |-> new.last_round_entered]]

(* ------------------------- collaborators ------------------------------ *)
\* the peers a broadcast fans out to: every process, the local one included
Peers == Procs

\* Quorum::majority(): a strict majority of the peers
majority == (NumProcs \div 2) + 1

(* -------------------- proposer role: read stage ----------------------- *)
\* Iterator::max_by_key: the index of the last element whose key is maximal
MaxByKeyIndex(responses) ==
    CHOOSE i \in 1..Len(responses) :
        /\ \A j \in 1..Len(responses) :
              RoundLE(responses[j].state.last_round_entered,
                      responses[i].state.last_round_entered)
        /\ \A j \in (i + 1)..Len(responses) :
              RoundLT(responses[j].state.last_round_entered,
                      responses[i].state.last_round_entered)

\* the preemption test of read_stage
ReadPreempted(responses, round) ==
    \E i \in 1..Len(responses) : RoundLT(round, responses[i].round)

\* read_stage with unwrap_or_default() in place of unwrap_or(value)
ReadStageResultDefault(responses, round, value) ==
    IF ReadPreempted(responses, round)
    THEN [tag |-> "None", value |-> value]
    ELSE IF responses = << >>
    THEN [tag |-> "Err", value |-> value]
    ELSE LET state == responses[MaxByKeyIndex(responses)].state
         IN  [tag |-> "Some",
              value |-> IF IsSome(state.value)
                        THEN Unwrap(state.value).value
                        ELSE 0]

\* what read_stage returns on the collected responses:
\* "None" is Ok(None), "Some" is Ok(Some(value)), "Err" is Err(EmptyReadResponse)
ReadStageResult(responses, round, value) ==
    IF ReadPreempted(responses, round)
    THEN [tag |-> "None", value |-> value]
    ELSE IF responses = << >>
    THEN [tag |-> "Err", value |-> value]
    ELSE LET state == responses[MaxByKeyIndex(responses)].state
         IN  [tag |-> "Some",
              value |-> IF IsSome(state.value)
                        THEN Unwrap(state.value).value
                        ELSE value]

(* -------------------- proposer role: write stage ---------------------- *)
\* the local update that opens write_stage
WriteStageLocal(self, round, value) == MkAlpha(round, Some(MkValue(value, round)))

\* a write_stage that takes every collected vector for preempted
WritePreemptedAlways(responses, round) == TRUE

\* the preemption test of write_stage made on the echoed round
WritePreemptedEchoed(responses, round) ==
    \E i \in 1..Len(responses) : RoundLT(round, responses[i].round)

\* the preemption test of write_stage
WritePreempted(responses, round) ==
    \E i \in 1..Len(responses) : RoundLT(round, responses[i].last_round_entered)

\* what write_stage returns on the collected responses
WriteStageResult(responses, round, value) ==
    IF WritePreempted(responses, round)
    THEN [tag |-> "None", value |-> value]
    ELSE [tag |-> "Some", value |-> value]

(* ------------------------------ state --------------------------------- *)
VARIABLES
    alpha,      \* alpha[a]: the Alpha register of process a
    pc,         \* pc[p]: where Proposer p stands: idle, loop, read, write, done
    round,      \* round[p]: the local `round` of propose
    arg,        \* arg[p]: the `value` argument of the running propose call
    wval,       \* wval[p]: the value read_stage handed to write_stage
    net,        \* net[p][a]: peer a's item of the stream p is collecting from
    rresp,      \* rresp[p]: the Vec<ReadResponse> collected by read_stage
    wresp,      \* wresp[p]: the Vec<WriteResponse> collected by write_stage (kept
                \* after it returned, until the next attempt)
    rseen,      \* rseen[p]: what the read quorum of the running attempt reported
    outcome,    \* outcome[p]: how the last alpha attempt of p ended
    fd,         \* fd[p]: what failure_detector.leader() answered p last (0: never asked)
    stable,     \* the process the failure detector has settled on (0: none yet)
    calls,      \* calls[p]: how many times propose was called on p
    errs,       \* how many stream items were Err(_) so far
    proposed,   \* every value that was the `value` argument of an alpha call
    decided,    \* every value some alpha invocation returned as Some
    hist,       \* the last two calls made on the register driven call by call
    tried,      \* tried[p]: the rounds of the last two alpha attempts of Proposer p
    known       \* known[p]: the decisions returned before p's running attempt began

vars == << alpha, pc, round, arg, wval, net, rresp, wresp, rseen, outcome, fd, stable,
           calls, errs, proposed, decided, hist, tried, known >>

\* one stream item: none (no stream), req (request on its way), resp (the
\* acceptor answered, response on its way), done (the stream yielded the item,
\* Ok or Err)
Item(st, resp) == [st |-> st, resp |-> resp]
NoStream == [a \in Peers |-> Item("none", None)]
Broadcast == [a \in Peers |-> Item("req", None)]

\* of a Vec<ReadResponse>: its length and the highest last_round_entered in it
Seen(responses) ==
    [count |-> Len(responses),
     entered |-> IF responses = << >> THEN ZeroRound
                 ELSE responses[MaxByKeyIndex(responses)].state.last_round_entered]

Init ==
    /\ alpha = [a \in Procs |-> InitAlpha]
    /\ pc = [p \in Proposers |-> "idle"]
    /\ round = [p \in Proposers |-> RoundNew(p)]
    /\ arg = [p \in Proposers |-> 0]
    /\ wval = [p \in Proposers |-> 0]
    /\ net = [p \in Proposers |-> NoStream]
    /\ rresp = [p \in Proposers |-> << >>]
    /\ wresp = [p \in Proposers |-> << >>]
    /\ rseen = [p \in Proposers |-> Seen(<< >>)]
    /\ outcome = [p \in Proposers |-> "none"]
    /\ fd = [p \in Proposers |-> 0]
    /\ stable = 0
    /\ calls = [p \in Proposers |-> 0]
    /\ errs = 0
    /\ proposed = {}
    /\ decided = {}
    /\ hist = << >>
    /\ tried = [p \in Proposers |-> << >>]
    /\ known = [p \in Proposers |-> {}]

(* ------------------------- the proposer loop -------------------------- *)
\* Proposer::propose(value) is called: `let mut round = Round::new(self.id)`
Propose(p, v, maxCalls) ==
    /\ pc[p] \in {"idle", "done"}
    /\ calls[p] < maxCalls
    /\ calls' = [calls EXCEPT ![p] = @ + 1]
    /\ arg' = [arg EXCEPT ![p] = v]
    /\ round' = [round EXCEPT ![p] = RoundNew(p)]
    /\ pc' = [pc EXCEPT ![p] = "loop"]
    /\ UNCHANGED << alpha, wval, net, rresp, wresp, rseen, outcome, fd, stable, errs,
                    proposed, decided, hist, tried, known >>

\* the decisions standing: the value and the round of every alpha invocation
\* that returned Some and whose propose call was the last on its Proposer
Decisions ==
    {[value |-> wval[q], round |-> round[q]] : q \in {r \in Proposers : pc[r] = "done"}}

\* FailureDetector::leader(): any process, until the detector has settled
LeaderAnswers == IF stable = 0 THEN Procs ELSE {stable}

\* the loop without the leader test
IsLeaderAlways(p, l) == TRUE

\* the test `self.failure_detector.leader() == self.id` of one loop iteration
IsLeader(p, l) == l = p

\* a loop iteration in which leader() answers l and the local process is the
\* leader: alpha is called and read_stage broadcasts the read
Attempt(p, l, maxTick) ==
    /\ pc[p] = "loop"
    /\ round[p].tick <= maxTick
    /\ l \in LeaderAnswers
    /\ IsLeader(p, l)
    /\ fd' = [fd EXCEPT ![p] = l]
    /\ pc' = [pc EXCEPT ![p] = "read"]
    /\ net' = [net EXCEPT ![p] = Broadcast]
    /\ rresp' = [rresp EXCEPT ![p] = << >>]
    /\ wresp' = [wresp EXCEPT ![p] = << >>]
    /\ rseen' = [rseen EXCEPT ![p] = Seen(<< >>)]
    /\ outcome' = [outcome EXCEPT ![p] = "none"]
    /\ proposed' = proposed \cup {arg[p]}
    /\ tried' = [tried EXCEPT ![p] = IF Len(@) < 2 THEN Append(@, round[p])
                                    ELSE Append(Tail(@), round[p])]
    /\ known' = [known EXCEPT ![p] = Decisions]
    /\ UNCHANGED << alpha, round, arg, wval, stable, calls, errs, decided, hist >>

\* a loop iteration in which leader() answers another process: nothing is
\* done and the loop repeats
Spin(p, l) ==
    /\ pc[p] = "loop"
    /\ l \in LeaderAnswers
    /\ ~IsLeader(p, l)
    /\ fd' = [fd EXCEPT ![p] = l]
    /\ UNCHANGED << alpha, pc, round, arg, wval, net, rresp, wresp, rseen, outcome,
                    stable, calls, errs, proposed, decided, hist, tried, known >>

\* the failure detector settles on process l for good
Stabilize(l) ==
    /\ stable = 0
    /\ stable' = l
    /\ UNCHANGED << alpha, pc, round, arg, wval, net, rresp, wresp, rseen, outcome, fd,
                    calls, errs, proposed, decided, hist, tried, known >>

(* ----------------------------- acceptors ------------------------------ *)
\* peer a serves the read request of p's broadcast_read
HandleRead(p, a) ==
    /\ pc[p] = "read"
    /\ net[p][a].st = "req"
    /\ LET r == read(alpha[a], round[p])
       IN  /\ alpha' = [alpha EXCEPT ![a] = r.self]
           /\ net' = [net EXCEPT ![p][a] = Item("resp", Some(r.resp))]
    /\ UNCHANGED << pc, round, arg, wval, rresp, wresp, rseen, outcome, fd, stable, calls,
                    errs, proposed, decided, hist, tried, known >>

\* peer a serves the write request of p's broadcast_write
HandleWrite(p, a) ==
    /\ pc[p] = "write"
    /\ net[p][a].st = "req"
    /\ LET r == write(alpha[a], MkValue(wval[p], round[p]))
       IN  /\ alpha' = [alpha EXCEPT ![a] = r.self]
           /\ net' = [net EXCEPT ![p][a] = Item("resp", Some(r.resp))]
    /\ UNCHANGED << pc, round, arg, wval, rresp, wresp, rseen, outcome, fd, stable, calls,
                    errs, proposed, decided, hist, tried, known >>

(* ------------------------ collecting a stream ------------------------- *)
\* `.take(majority()).collect()` is over: enough items taken, or the stream ended
StageOver(responses, netp) ==
    \/ Len(responses) >= majority
    \/ \A a \in Peers : netp[a].st = "done"

\* read_stage has collected rr: alpha returns, or goes on into write_stage
ReadDone(p, rr) ==
    LET res == ReadStageResult(rr, round[p], arg[p])
    IN  /\ rresp' = [rresp EXCEPT ![p] = << >>]
        /\ IF res.tag = "Some"
           THEN /\ rseen' = [rseen EXCEPT ![p] = Seen(rr)]
                /\ alpha' = [alpha EXCEPT
                      ![p] = WriteStageLocal(alpha[p], round[p], res.value)]
                /\ wval' = [wval EXCEPT ![p] = res.value]
                /\ net' = [net EXCEPT ![p] = Broadcast]
                /\ pc' = [pc EXCEPT ![p] = "write"]
                /\ UNCHANGED << round, outcome >>
           ELSE /\ pc' = [pc EXCEPT ![p] = "loop"]
                /\ round' = [round EXCEPT ![p] = RoundNext(@)]
                /\ net' = [net EXCEPT ![p] = NoStream]
                /\ outcome' = [outcome EXCEPT
                      ![p] = IF res.tag = "None" THEN "ReadNone" ELSE "ReadErr"]
                /\ UNCHANGED << alpha, wval, rseen >>
        /\ UNCHANGED << wresp, decided >>

\* write_stage has collected wr: alpha returns to the loop of propose
WriteDone(p, wr) ==
    LET res == WriteStageResult(wr, round[p], wval[p])
    IN  /\ net' = [net EXCEPT ![p] = NoStream]
        /\ IF res.tag = "Some"
           THEN /\ wresp' = [wresp EXCEPT ![p] = wr]
                /\ pc' = [pc EXCEPT ![p] = "done"]
                /\ decided' = decided \cup {res.value}
                /\ outcome' = [outcome EXCEPT ![p] = "Some"]
                /\ UNCHANGED round
           ELSE /\ wresp' = [wresp EXCEPT ![p] = wr]
                /\ pc' = [pc EXCEPT ![p] = "loop"]
                /\ round' = [round EXCEPT ![p] = RoundNext(@)]
                /\ outcome' = [outcome EXCEPT ![p] = "WriteNone"]
                /\ UNCHANGED decided
        /\ UNCHANGED << alpha, wval, rresp, rseen >>

\* the stream of p has yielded an item, leaving netp and the vectors rr, wr
Consume(p, netp, rr, wr) ==
    IF pc[p] = "read"
    THEN IF StageOver(rr, netp)
         THEN ReadDone(p, rr)
         ELSE /\ net' = [net EXCEPT ![p] = netp]
              /\ rresp' = [rresp EXCEPT ![p] = rr]
              /\ UNCHANGED << alpha, pc, round, wval, wresp, rseen, outcome, decided >>
    ELSE IF StageOver(wr, netp)
         THEN WriteDone(p, wr)
         ELSE /\ net' = [net EXCEPT ![p] = netp]
              /\ wresp' = [wresp EXCEPT ![p] = wr]
              /\ UNCHANGED << alpha, pc, round, wval, rresp, rseen, outcome, decided >>

\* peer a's item is Ok(response): filter_map keeps it, collect pushes it
Arrive(p, a) ==
    /\ pc[p] \in {"read", "write"}
    /\ net[p][a].st = "resp"
    /\ LET netp == [net[p] EXCEPT ![a] = Item("done", None)]
           resp == Unwrap(net[p][a].resp)
       IN  Consume(p, netp,
                   IF pc[p] = "read" THEN Append(rresp[p], resp) ELSE rresp[p],
                   IF pc[p] = "write" THEN Append(wresp[p], resp) ELSE wresp[p])
    /\ UNCHANGED << arg, fd, stable, calls, errs, proposed, hist, tried, known >>

\* peer a's item is Err(_): filter_map drops it (the request or the response
\* was lost)
Fail(p, a, maxErrs) ==
    /\ pc[p] \in {"read", "write"}
    /\ net[p][a].st \in {"req", "resp"}
    /\ errs < maxErrs
    /\ errs' = errs + 1
    /\ LET netp == [net[p] EXCEPT ![a] = Item("done", None)]
       IN  Consume(p, netp, rresp[p], wresp[p])
    /\ UNCHANGED << arg, fd, stable, calls, proposed, hist, tried, known >>

\* the proposer with the lowest id: its rounds lose every tie
Solo == CHOOSE p \in Proposers : \A q \in Proposers : p <= q

(* ---------------------- proposers in contention ----------------------- *)
Next ==
    \/ \E p \in Proposers, v \in Values : Propose(p, v, MaxCalls)
    \/ \E p \in Proposers, l \in Procs : Attempt(p, l, MaxTick)
    \/ \E p \in Proposers, l \in Procs : Spin(p, l)
    \/ \E p \in Proposers, a \in Peers : HandleRead(p, a)
    \/ \E p \in Proposers, a \in Peers : HandleWrite(p, a)
    \/ \E p \in Proposers, a \in Peers : Arrive(p, a)
    \/ \E p \in Proposers, a \in Peers : Fail(p, a, MaxErrs)

Spec == Init /\ [][Next]_vars

(* ------------------- a failure detector that settles ------------------ *)
\* what Proposer p and the peers serving its broadcasts do
ProposerStep(p) ==
    \/ \E l \in Procs :
          Attempt(p, l, IF stable = p THEN MaxTick + LiveExtra ELSE MaxTick)
    \/ \E a \in Peers : HandleRead(p, a)
    \/ \E a \in Peers : HandleWrite(p, a)
    \/ \E a \in Peers : Arrive(p, a)

NextLive ==
    \/ \E p \in Proposers, v \in 1..LiveValues : Propose(p, v, MaxCalls)
    \/ \E p \in Proposers : ProposerStep(p)
    \/ \E p \in Proposers, l \in Procs : Spin(p, l)
    \/ Stabilize(Solo)

\* the loop of every proposer keeps running and messages keep being delivered
SpecLive ==
    /\ Init
    /\ [][NextLive]_vars
    /\ \A p \in Proposers : WF_vars(ProposerStep(p))

(* --------------------- one proposer on its own ------------------------- *)
NextSolo ==
    \/ \E v \in Values : Propose(Solo, v, SoloCalls)
    \/ \E l \in Procs : Attempt(Solo, l, SoloTick)
    \/ \E l \in Procs : Spin(Solo, l)
    \/ \E a \in Peers : HandleRead(Solo, a)
    \/ \E a \in Peers : HandleWrite(Solo, a)
    \/ \E a \in Peers : Arrive(Solo, a)
    \/ \E a \in Peers : Fail(Solo, a, SoloErrs)

SpecSolo == Init /\ [][NextSolo]_vars

(* ------------------ one register, driven call by call ----------------- *)
\* the register the calls are made on
Reg == CHOOSE a \in Procs : \A b \in Procs : a <= b

\* the record of one call: the operation, its arguments, the register before
\* and after, and the response (none for the local update of write_stage)
Call(op, r, v, pre, post, resp) ==
    [op |-> op, round |-> r, value |-> v, pre |-> pre, post |-> post,
     resp |-> resp]

\* hist keeps the last two calls
Remember(call) ==
    IF Len(hist) < 2 THEN Append(hist, call) ELSE Append(Tail(hist), call)

cvars == << pc, round, arg, wval, net, rresp, wresp, rseen, outcome, fd, stable, calls,
            errs, proposed, decided, tried, known >>

\* a peer's read(round) reaches the register
RegRead(r) ==
    LET res == read(alpha[Reg], r)
    IN  /\ alpha' = [alpha EXCEPT ![Reg] = res.self]
        /\ hist' = Remember(Call("read", r, 0, alpha[Reg], res.self, Some(res.resp)))
        /\ UNCHANGED cvars

\* a peer's write(value) reaches the register
RegWrite(r, v) ==
    LET res == write(alpha[Reg], MkValue(v, r))
    IN  /\ alpha' = [alpha EXCEPT ![Reg] = res.self]
        /\ hist' = Remember(Call("write", r, v, alpha[Reg], res.self, Some(res.resp)))
        /\ UNCHANGED cvars

\* the register's own write_stage(round, value) begins
RegWriteStage(r, v) ==
    LET new == WriteStageLocal(alpha[Reg], r, v)
    IN  /\ alpha' = [alpha EXCEPT ![Reg] = new]
        /\ hist' = Remember(Call("write_stage", r, v, alpha[Reg], new, None))
        /\ UNCHANGED cvars

NextReg ==
    \/ \E r \in Rounds : RegRead(r)
    \/ \E r \in Rounds, v \in Values : RegWrite(r, v)
    \/ \E r \in Rounds, v \in Values : RegWriteStage(r, v)

SpecReg == Init /\ [][NextReg]_vars

(* ------------------------ views of the state -------------------------- *)
\* the peers whose ReadResponse or WriteResponse is on its way to p
Answers(p) ==
    {a \in Peers : net[p][a].st = "resp"}

\* the orders in which the stream can yield the items of the peers Q
Orders(Q) ==
    {o \in [1..Cardinality(Q) -> Q] : \A i, j \in 1..Cardinality(Q) : i # j => o[i] # o[j]}

\* the Vec collected when the answers of the peers o[1], o[2], ... arrive in
\* that order
Collected(p, o) == [i \in 1..Len(o) |-> Unwrap(net[p][o[i]].resp)]

\* the round of the last alpha attempt of Proposer p
LastTried(p) == tried[p][Len(tried[p])]

(* ============================== claims ================================= *)

\* C1 (Agreement): all alpha invocations that return Some(v) return the same
\* v: no two decisions ever differ.
Agreement == Cardinality(decided) <= 1

\* C2 (Validity): every value returned as Some(v) by alpha, and every value
\* stored in any register, was the value argument of some alpha call.
Validity ==
    /\ decided \subseteq proposed
    /\ \A a \in Procs :
          IsSome(alpha[a].value) => Unwrap(alpha[a].value).value \in proposed

\* a proposer has returned a value that another proposer's call brought in
ValidityWitness ==
    \E p \in Proposers :
        /\ pc[p] = "done"
        /\ wval[p] # arg[p]
        /\ wval[p] \in decided
        /\ \E a \in Procs :
              IsSome(alpha[a].value) /\ Unwrap(alpha[a].value).value = wval[p]

\* C3 (quorum before completion): a read stage or write stage completes only
\* after majority() successful responses were collected; write_stage never
\* returns Some(value) on fewer than majority() successful write responses.
QuorumBeforeCompletion ==
    \A p \in Proposers :
        /\ pc[p] = "write" => rseen[p].count >= majority
        /\ pc[p] = "done" => Len(wresp[p]) >= majority

\* C4 (liveness under a stable leader): once the failure detector names p
\* for good at every process, and every broadcast gathers majority()
\* successful responses, the propose call running at p returns.
StableLeaderDecides ==
    (stable = Solo /\ pc[Solo] # "idle") ~> (pc[Solo] = "done")

\* the settled leader returned from an attempt it had to retry
StableLeaderDecidesWitness ==
    /\ stable = Solo
    /\ pc[Solo] = "done"
    /\ round[Solo].tick >= 1

\* C5 (round monotonicity): a read(round) or write(value) call never
\* decreases last_round_entered of the register it is made on.
RoundMonotonicity ==
    \A i \in 1..Len(hist) :
        hist[i].op \in {"read", "write"} =>
            RoundLE(hist[i].pre.last_round_entered,
                    hist[i].post.last_round_entered)

\* a read raised last_round_entered and an accepted write raised it again
RoundMonotonicityWitness ==
    /\ Len(hist) >= 2
    /\ hist[Len(hist) - 1].op = "read"
    /\ RoundLT(hist[Len(hist) - 1].pre.last_round_entered,
               hist[Len(hist) - 1].post.last_round_entered)
    /\ hist[Len(hist)].op = "write"
    /\ RoundLT(hist[Len(hist)].pre.last_round_entered,
               hist[Len(hist)].post.last_round_entered)

\* C6: in every reachable state of every register, if value is Some(v) then
\* v.last_round_with_write <= last_round_entered.
WriteRoundBelowEntered ==
    \A a \in Procs :
        IsSome(alpha[a].value) =>
            RoundLE(Unwrap(alpha[a].value).last_round_with_write,
                    alpha[a].last_round_entered)

\* a register holds a value written in a round below the round it has entered
WriteRoundBelowEnteredWitness ==
    /\ Len(hist) >= 2
    /\ \E i \in 1..Len(hist) : hist[i].op = "write_stage"
    /\ IsSome(alpha[Reg].value)
    /\ RoundLT(Unwrap(alpha[Reg].value).last_round_with_write,
               alpha[Reg].last_round_entered)

\* C7 (write rejection): a write with round below last_round_entered leaves
\* the register unchanged; a write with the round of the value already stored
\* leaves value unchanged.
WriteRejection ==
    \A i \in 1..Len(hist) :
        hist[i].op = "write" =>
            /\ RoundLT(hist[i].round, hist[i].pre.last_round_entered)
                  => hist[i].post = hist[i].pre
            /\ (/\ IsSome(hist[i].pre.value)
                /\ hist[i].round = Unwrap(hist[i].pre.value).last_round_with_write)
                  => hist[i].post.value = hist[i].pre.value

\* both rejections happened: a write below the entered round, and a write of
\* another value in the round of the stored one
WriteRejectionWitness ==
    /\ Len(hist) >= 2
    /\ hist[1].op = "write"
    /\ RoundLT(hist[1].round, hist[1].pre.last_round_entered)
    /\ hist[2].op = "write"
    /\ IsSome(hist[2].pre.value)
    /\ hist[2].round = Unwrap(hist[2].pre.value).last_round_with_write
    /\ hist[2].value # Unwrap(hist[2].pre.value).value
    /\ hist[2].round = hist[2].pre.last_round_entered

\* C8 (idempotence of read): two read(round) calls in a row with the same
\* round answer with the same state, the second changes nothing, and
\* last_round_entered is then max(previous, round); read never changes value.
ReadIdempotent ==
    /\ \A i \in 1..Len(hist) :
          hist[i].op = "read" => hist[i].post.value = hist[i].pre.value
    /\ \A i \in 1..(Len(hist) - 1) :
          (/\ hist[i].op = "read"
           /\ hist[i + 1].op = "read"
           /\ hist[i].round = hist[i + 1].round)
          => /\ Unwrap(hist[i].resp).state = Unwrap(hist[i + 1].resp).state
             /\ hist[i + 1].post = hist[i + 1].pre
             /\ hist[i + 1].post.last_round_entered
                  = RoundMax(hist[i].pre.last_round_entered, hist[i].round)

\* a register holding a value was read twice at one round, and the first
\* read raised last_round_entered
ReadIdempotentWitness ==
    /\ Len(hist) >= 2
    /\ hist[Len(hist) - 1].op = "read"
    /\ hist[Len(hist)].op = "read"
    /\ hist[Len(hist) - 1].round = hist[Len(hist)].round
    /\ IsSome(hist[Len(hist) - 1].pre.value)
    /\ RoundLT(hist[Len(hist) - 1].pre.last_round_entered, hist[Len(hist)].round)

\* C9: every alpha invocation of propose is made in a loop iteration in which
\* leader() answered the proposer's own id, and every invocation starts from
\* the loop, where the detector is asked again.
AttemptOnlyAsLeader ==
    [][\A p \in Proposers :
          /\ pc'[p] \in {"read", "write"} => fd'[p] = p
          /\ (pc[p] \notin {"read", "write"} /\ pc'[p] \in {"read", "write"})
                => pc[p] = "loop" /\ pc'[p] = "read"]_vars

\* a proposer whose attempt aborted went through the loop again and is in the
\* write stage of a further attempt, leader() having answered its own id
AttemptOnlyAsLeaderWitness ==
    /\ pc[Solo] = "write"
    /\ round[Solo].tick >= 1
    /\ fd[Solo] = Solo

\* C10: a proposer preempted in the read stage does not go on to write: if an
\* acceptor of the collected read quorum had entered a round above the
\* proposed one, read_stage returns None and nothing is written.
NoWriteAfterPreemptedRead ==
    \A p \in Proposers :
        pc[p] = "write" => RoundLE(rseen[p].entered, round[p])

\* C11: once an alpha invocation has returned Some(x) at round r, every
\* read_stage that runs later at a round above r and returns Some(v) returns
\* v = x, whatever quorum answered and whatever the candidate was.
DecidedValueCarried ==
    \A p \in Proposers :
        pc[p] \in {"write", "done"} =>
            \A d \in known[p] : RoundLT(d.round, round[p]) => wval[p] = d.value

\* C12: the value read_stage selects does not depend on the order in which
\* the responses arrive: every two orders of the same quorum of responses
\* give the same result.
ArrivalOrderIrrelevant ==
    \A p \in Proposers :
        pc[p] = "read" =>
            \A Q \in SUBSET Answers(p) :
                Cardinality(Q) = majority =>
                    \A o1, o2 \in Orders(Q) :
                        ReadStageResult(Collected(p, o1), round[p], arg[p])
                          = ReadStageResult(Collected(p, o2), round[p], arg[p])

\* C13: write_stage updates the local register by the acceptor write rule, so
\* last_round_entered of a register never decreases, its own write_stage
\* updates included.
LocalUpdateFollowsWriteRule ==
    [][\A a \in Procs :
          /\ RoundLE(alpha[a].last_round_entered, alpha'[a].last_round_entered)
          /\ (a \in Proposers /\ pc[a] = "read" /\ pc'[a] = "write")
                => alpha'[a] = write(alpha[a], MkValue(wval'[a], round[a])).self]_vars

\* C14: write(value) with r = value.last_round_with_write stores the value
\* and enters r iff r >= last_round_entered and the stored value is None or
\* older than r; otherwise the state is unchanged; the response is
\* {round: r, last_round_entered: the one after the call}.
WriteContract ==
    \A i \in 1..Len(hist) :
        hist[i].op = "write" =>
            LET pre == hist[i].pre
                post == hist[i].post
                r == hist[i].round
                accept == /\ RoundLE(pre.last_round_entered, r)
                          /\ \/ pre.value = << >>
                             \/ RoundLT(pre.value[1].last_round_with_write, r)
            IN  /\ accept => post = [last_round_entered |-> r,
                                     value |-> << [value |-> hist[i].value,
                                                   last_round_with_write |-> r] >>]
                /\ ~accept => post = pre
                /\ hist[i].resp
                     = << [round |-> r, last_round_entered |-> post.last_round_entered] >>

\* a write replaced a stored value, then a write below the round entered was
\* refused and answered with the round entered
WriteContractWitness ==
    /\ Len(hist) = 2
    /\ hist[1].op = "write"
    /\ IsSome(hist[1].pre.value)
    /\ hist[1].post # hist[1].pre
    /\ hist[2].op = "write"
    /\ hist[2].post = hist[2].pre
    /\ RoundLT(hist[2].round, hist[2].pre.last_round_entered)
    /\ Unwrap(hist[2].resp).last_round_entered = hist[2].pre.last_round_entered

\* C15: write_stage returns None if a collected write response reports
\* last_round_entered above the proposed round, and Some(value) otherwise.
WriteStageVerdict ==
    \A p \in Proposers :
        /\ outcome[p] = "Some" =>
              \A i \in 1..Len(wresp[p]) :
                  RoundLE(wresp[p][i].last_round_entered, LastTried(p))
        /\ outcome[p] = "WriteNone" =>
              \E i \in 1..Len(wresp[p]) :
                  RoundLT(LastTried(p), wresp[p][i].last_round_entered)

\* one write_stage returned None on majority() responses, another returned Some
WriteStageVerdictWitness ==
    \E p, q \in Proposers :
        /\ outcome[p] = "WriteNone"
        /\ Len(wresp[p]) >= majority
        /\ outcome[q] = "Some"
        /\ Len(wresp[q]) >= majority

\* C16: the rounds of successive alpha attempts of one Proposer have its
\* process_id and strictly increasing ticks: no Proposer runs two attempts
\* under the same round.
AttemptRoundsIncrease ==
    \A p \in Proposers :
        \A i, j \in 1..Len(tried[p]) :
            /\ tried[p][i].process_id = p
            /\ i < j => tried[p][i].tick < tried[p][j].tick

\* C17: the round is advanced with next() when an alpha attempt returns None
\* and on every loop iteration in which the local process is not the leader.
RoundAdvancesWhenNotLeader ==
    [][\A p \in Proposers :
          /\ (pc[p] \in {"read", "write"} /\ pc'[p] = "loop")
                => round'[p] = RoundNext(round[p])
          /\ (pc[p] = "loop" /\ fd'[p] # fd[p] /\ fd'[p] # p)
                => round'[p] = RoundNext(round[p])]_vars

\* C18: EmptyReadResponse is fatal: after an alpha attempt failed with it, the
\* proposer neither advances the round nor attempts again.
EmptyReadResponseFatal ==
    \A p \in Proposers :
        outcome[p] = "ReadErr" => /\ round[p] = LastTried(p)
                                  /\ pc[p] \notin {"read", "write"}

\* C19: a failed per-peer response never changes the result of a stage, which
\* the first majority() successful responses alone determine.
FailuresLeaveResult ==
    \A p \in Proposers :
        /\ outcome[p] # "ReadErr"
        /\ pc[p] = "write" => rseen[p].count = majority
        /\ outcome[p] \in {"Some", "WriteNone"} => Len(wresp[p]) = majority

\* C20 (one value per round): two registers whose stored values carry the
\* same last_round_with_write hold the same value.
OneValuePerRound ==
    \A a, b \in Procs :
        (/\ IsSome(alpha[a].value)
         /\ IsSome(alpha[b].value)
         /\ Unwrap(alpha[a].value).last_round_with_write
              = Unwrap(alpha[b].value).last_round_with_write)
        => Unwrap(alpha[a].value).value = Unwrap(alpha[b].value).value

====
